---- MODULE Spec2Model ----
(***************************************************************************)
(* The harvest pipeline of bot4.py: harvest_and_post_media (the            *)
(* orchestrator: one counting pass and one fetch pass per selected group)  *)
(* and download_and_post_media (one asyncio task per message of a page,    *)
(* gated by a Semaphore, joined by asyncio.gather).                        *)
(*                                                                         *)
(* asyncio runs one coroutine at a time and switches only at an await, so  *)
(* every action below is the code between two awaits of one coroutine.     *)
(***************************************************************************)
EXTENDS Integers, Sequences, FiniteSets, TLC

\* ------------------------------------------------------------------ bounds

\* Number of groups the operator selected (selected_groups).
NumGroups == 2

\* The number the operator types at a "How many ... to download" prompt when
\* it is not 0.
MaxRequest == 1

\* Largest number of calls to the outside (os.makedirs, client.get_messages,
\* message.download_media) that fail in one run: that raise or, for
\* download_media, return None.
MaxFailures == 1

\* Page size used by the runs of Spec (the code's limit is 100; a history of
\* a few messages needs a small page to span several pages).
SmallLimit == 2

\* ------------------------------------------------------- program constants

\* asyncio.Semaphore(5)
SemaphoreValue == 5

\* max_video_duration = 10 * 60
max_video_duration == 10 * 60

\* --------------------------------------------------------------- messages

\* A document attribute: DocumentAttributeVideo carries a duration,
\* DocumentAttributeFilename and the like do not (hasattr(attr, "duration")).
DurationAttr(d) == [has_duration |-> TRUE, duration |-> d]
PlainAttr == [has_duration |-> FALSE, duration |-> 0]

PhotoMsg(i) ==
    [id |-> i, media |-> "MessageMediaPhoto", mime_type |-> "", attributes |-> <<>>]
VideoMsg(i, attrs) ==
    [id |-> i, media |-> "MessageMediaDocument", mime_type |-> "video/mp4",
     attributes |-> attrs]
FileMsg(i) ==
    [id |-> i, media |-> "MessageMediaDocument", mime_type |-> "application/pdf",
     attributes |-> <<PlainAttr>>]
TextMsg(i) ==
    [id |-> i, media |-> "None", mime_type |-> "", attributes |-> <<>>]

\* "video" in message.media.document.mime_type
IsVideoMime(mime_type) == mime_type \in {"video/mp4", "video/webm"}

\* isinstance(message.media, MessageMediaPhoto)
IsPhoto(message) == message.media = "MessageMediaPhoto"

\* isinstance(message.media, MessageMediaDocument) and "video" in mime_type
IsVideo(message) ==
    message.media = "MessageMediaDocument" /\ IsVideoMime(message.mime_type)

\* The histories a group can have, newest message first (descending ids).
Histories ==
    << <<PhotoMsg(3), PhotoMsg(2), PhotoMsg(1)>>,
       <<VideoMsg(3, <<DurationAttr(120)>>), VideoMsg(2, <<DurationAttr(700)>>),
         VideoMsg(1, <<DurationAttr(50)>>)>>,
       <<VideoMsg(5, <<PlainAttr, DurationAttr(601)>>),
         VideoMsg(4, <<DurationAttr(600)>>), PhotoMsg(2), VideoMsg(1, <<PlainAttr>>)>>,
       <<TextMsg(2), FileMsg(1)>>,
       <<>> >>

\* The selections of groups a run starts from: group g has the history that
\* follows, in Histories, the history of group g - 1.
Selections(groups) ==
    {[g \in groups |-> Histories[((s + g) % Len(Histories)) + 1]] :
        s \in 1..Len(Histories)}

Min(a, b) == IF a < b THEN a ELSE b

RECURSIVE CountPhotos(_)
\* The counting loop's photo tally over one page.
CountPhotos(page) ==
    IF page = <<>> THEN 0
    ELSE (IF Head(page).media # "None" /\ IsPhoto(Head(page)) THEN 1 ELSE 0)
         + CountPhotos(Tail(page))

\* Mutant of CountVideos: the first pass applies the duration filter of the
\* second pass and leaves out the videos above max_video_duration.
CountVideos_DurationFilter(page) ==
    Cardinality({k \in DOMAIN page :
        /\ IsVideo(page[k])
        /\ ~\E a \in DOMAIN page[k].attributes :
              /\ page[k].attributes[a].has_duration
              /\ page[k].attributes[a].duration > max_video_duration})

RECURSIVE CountVideos(_)
\* The counting loop's video tally over one page (no duration test here).
CountVideos(page) ==
    IF page = <<>> THEN 0
    ELSE (IF Head(page).media # "None" /\ ~IsPhoto(Head(page)) /\ IsVideo(Head(page))
          THEN 1 ELSE 0)
         + CountVideos(Tail(page))

\* client.get_messages(group.id, offset_id=offset_id, limit=limit): the newest
\* `lim` messages with an id below offset_id (offset_id = 0: from the newest).
GetMessages(hist, offset, lim) ==
    LET older == SelectSeq(hist, LAMBDA m : offset = 0 \/ m.id < offset)
    IN  SubSeq(older, 1, Min(lim, Len(older)))

\* --------------------------------------------------------------- the disk

\* The disk maps each path that exists under media/ to the number of times
\* its content was written.

\* A file of group g's directory holding the media of message i; k numbers
\* the copies ("name", "name (1)", ...).
Path(g, i, k) == <<g, i, k>>

\* os.path.exists(file_name)
PathExists(disk, file_name) == file_name \in DOMAIN disk

\* message.download_media(file=group_dir) names the file it writes: the first
\* name for the message's media that is not on disk.
ProperFilename(disk, g, i) ==
    LET k == CHOOSE n \in 0..Cardinality(DOMAIN disk) :
                 /\ ~PathExists(disk, Path(g, i, n))
                 /\ \A j \in 0..(n - 1) : PathExists(disk, Path(g, i, j))
    IN  Path(g, i, k)

\* The disk after file_name was written.
Written(disk, file_name) ==
    [p \in DOMAIN disk \cup {file_name} |->
        IF p = file_name
        THEN (IF PathExists(disk, p) THEN disk[p] + 1 ELSE 1)
        ELSE disk[p]]

\* NoFile stands for the None that download_media returns when it downloads
\* nothing.
NoFile == <<>>

\* Mutant of IsNewFile: the test of the path is left out.
IsNewFile_NoExistsTest(disk, file_name) == file_name # NoFile

\* `if file_name and not os.path.exists(file_name)`, evaluated after
\* download_media has returned.
IsNewFile(disk, file_name) == file_name # NoFile /\ ~PathExists(disk, file_name)

\* ------------------------------------------------------------------ state

VARIABLES
    history,          \* group -> its messages on the server, newest first
    limit,            \* `limit`, the page size
    files,            \* the disk: path under media/ -> times written
    group,            \* position of the `for group in selected_groups` loop
    pc,               \* where harvest_and_post_media is suspended
    offset_id,        \* `offset_id`
    photo_count,      \* `photo_count`
    video_count,      \* `video_count`
    download_photos,  \* `download_photos` of harvest_and_post_media
    download_videos,  \* `download_videos` of harvest_and_post_media
    downloaded_photos,\* `downloaded_photos` of harvest_and_post_media
    downloaded_videos,\* `downloaded_videos` of harvest_and_post_media
    messages,         \* `messages`, the page last returned
    calls,            \* one frame per call of download_and_post_media
    outcome,          \* group -> what the log says about it (lines 227, 230)
    counted,          \* group -> <<photo_count, video_count>> logged (line 200)
    requested,        \* group -> <<photos, videos>> typed at the prompts
    prior_files,      \* the paths that existed when the run began
    posted,           \* the paths handed to post_media_to_group
    failures          \* the number of outside calls that failed so far

vars ==
    <<history, limit, files, group, pc, offset_id, photo_count, video_count,
      download_photos, download_videos, downloaded_photos, downloaded_videos,
      messages, calls, outcome, counted, requested, prior_files, posted,
      failures>>

Groups == 1..NumGroups

\* The disk a previous run over the same groups left: one file per photo or
\* video message.
PriorRun(h) ==
    LET paths == UNION {{Path(g, h[g][k].id, 0) :
                            k \in {j \in DOMAIN h[g] :
                                      IsPhoto(h[g][j]) \/ IsVideo(h[g][j])}} :
                        g \in Groups}
    IN  [p \in paths |-> 1]

EmptyDisk == [p \in {} |-> 0]

IdsOf(msgs) == {msgs[k].id : k \in DOMAIN msgs}

\* The state when harvest_and_post_media enters its `for group` loop.
InitWith(lim, selections) ==
    /\ history \in selections
    /\ limit = lim
    /\ files \in {EmptyDisk, PriorRun(history)}
    /\ prior_files = DOMAIN files
    /\ group = 1
    /\ pc = "start"
    /\ offset_id = 0
    /\ photo_count = 0
    /\ video_count = 0
    /\ download_photos = 0
    /\ download_videos = 0
    /\ downloaded_photos = 0
    /\ downloaded_videos = 0
    /\ messages = <<>>
    /\ calls = <<>>
    /\ outcome = [g \in Groups |-> "pending"]
    /\ counted = [g \in Groups |-> <<0, 0>>]
    /\ requested = [g \in Groups |-> <<0, 0>>]
    /\ posted = {}
    /\ failures = 0

Init == InitWith(SmallLimit, Selections(Groups))

\* A history of n photo messages.
Photos(n) == [k \in 1..n |-> PhotoMsg(n + 1 - k)]

\* Runs whose pages hold one message more than the semaphore has slots: the
\* last group has a full page of photos, the groups before it two photos each.
InitWide ==
    InitWith(SemaphoreValue + 1,
             {[g \in Groups |-> IF g = NumGroups THEN Photos(SemaphoreValue + 1)
                                ELSE Photos(2)]})

\* ------------------------------------------- harvest_and_post_media

\* `offset_id = messages[-1].id` of the first pass.
CountOffset(page) == page[Len(page)].id

\* Mutant of FetchOffset: the id of the page's first message is taken.
FetchOffset_FirstMessage(page) == page[1].id

\* `offset_id = messages[-1].id` of the second pass.
FetchOffset(page) == page[Len(page)].id

\* The `for` statement takes the next group, or the loop ends and
\* harvest_and_post_media returns.
NextGroupPc == IF group + 1 > NumGroups THEN "done" ELSE "start"

\* Mutant of Except: the handler encloses the loop, so the first error ends
\* the run.
Except_LeavesLoop(error) ==
    /\ outcome' = [outcome EXCEPT ![group] = error]
    /\ group' = group
    /\ pc' = "done"

\* `except Exception as e: logging.error(...)`, then the next group.
Except(error) ==
    /\ outcome' = [outcome EXCEPT ![group] = error]
    /\ group' = group + 1
    /\ pc' = NextGroupPc

\* os.makedirs(group_dir, exist_ok=True) and the first get_messages request.
MakeDirs ==
    /\ pc = "start"
    /\ \E ok \in {TRUE} \cup (IF failures < MaxFailures THEN {FALSE} ELSE {}) :
         IF ok
         THEN /\ pc' = "count"
              /\ offset_id' = 0
              /\ photo_count' = 0
              /\ video_count' = 0
              /\ UNCHANGED <<group, outcome, failures>>
         ELSE /\ Except("makedirs_error")
              /\ failures' = failures + 1
              /\ UNCHANGED <<offset_id, photo_count, video_count>>
    /\ UNCHANGED <<history, limit, files, download_photos, download_videos,
                   downloaded_photos, downloaded_videos, messages, calls, counted,
                   requested, prior_files, posted>>

\* First pass: a page arrives and is tallied.
CountPage ==
    /\ pc = "count"
    /\ LET page == GetMessages(history[group], offset_id, limit)
       IN  /\ page # <<>>
           /\ messages' = page
           /\ photo_count' = photo_count + CountPhotos(page)
           /\ video_count' = video_count + CountVideos(page)
           /\ offset_id' = CountOffset(page)
    /\ UNCHANGED <<history, limit, files, group, pc, download_photos, download_videos,
                   downloaded_photos, downloaded_videos, calls, outcome, counted,
                   requested, prior_files, posted, failures>>

\* What the operator answers at a prompt: "0 to skip", or a number.
Answers == {0, MaxRequest}

\* First pass: the empty page ends it; the operator is asked how many photos
\* and videos to download, and the second pass sends its first request.
CountDone ==
    /\ pc = "count"
    /\ GetMessages(history[group], offset_id, limit) = <<>>
    /\ messages' = <<>>
    /\ counted' = [counted EXCEPT ![group] = <<photo_count, video_count>>]
    /\ \E p \in Answers, v \in Answers :
         /\ requested' = [requested EXCEPT ![group] = <<p, v>>]
         /\ download_photos' = Min(p, photo_count)
         /\ download_videos' = Min(v, video_count)
    /\ downloaded_photos' = 0
    /\ downloaded_videos' = 0
    /\ offset_id' = 0
    /\ pc' = "fetch"
    /\ UNCHANGED <<history, limit, files, group, photo_count, video_count, calls,
                   outcome, prior_files, posted, failures>>

\* client.get_messages raises, in either pass.
ScanError ==
    /\ pc \in {"count", "fetch"}
    /\ failures < MaxFailures
    /\ failures' = failures + 1
    /\ Except("scan_error")
    /\ UNCHANGED <<history, limit, files, offset_id, photo_count, video_count,
                   download_photos, download_videos, downloaded_photos,
                   downloaded_videos, messages, calls, counted, requested, prior_files,
                   posted>>

\* The task download_and_post(message) as asyncio.gather schedules it.
NewTask == [st |-> "wait", started |-> FALSE, file_name |-> NoFile]

\* The frame of download_and_post_media(..., messages, downloaded_photos,
\* downloaded_videos, download_photos, download_videos): the parameters are
\* locals of the call, initialised with the values the caller passes; the
\* `nonlocal` of download_and_post binds these locals, not the caller's.
\* `awaited` says that harvest_and_post_media is suspended in this call.
NewCall(page) ==
    [group |-> group,
     messages |-> page,
     downloaded_photos |-> downloaded_photos,
     downloaded_videos |-> downloaded_videos,
     download_photos |-> download_photos,
     download_videos |-> download_videos,
     semaphore |-> SemaphoreValue,
     awaited |-> TRUE,
     tasks |-> [k \in DOMAIN page |-> NewTask]]

\* Second pass: a page arrives, download_and_post_media is called with it and
\* awaits asyncio.gather(*tasks).
FetchPage ==
    /\ pc = "fetch"
    /\ LET page == GetMessages(history[group], offset_id, limit)
       IN  /\ page # <<>>
           /\ messages' = page
           /\ calls' = Append(calls, NewCall(page))
    /\ pc' = "gather"
    /\ UNCHANGED <<history, limit, files, group, offset_id, photo_count, video_count,
                   download_photos, download_videos, downloaded_photos,
                   downloaded_videos, outcome, counted, requested, prior_files, posted,
                   failures>>

\* Second pass: the empty page ends it ("Completed downloading ...").
FetchDone ==
    /\ pc = "fetch"
    /\ GetMessages(history[group], offset_id, limit) = <<>>
    /\ messages' = <<>>
    /\ outcome' = [outcome EXCEPT ![group] = "completed"]
    /\ group' = group + 1
    /\ pc' = NextGroupPc
    /\ UNCHANGED <<history, limit, files, offset_id, photo_count, video_count,
                   download_photos, download_videos, downloaded_photos,
                   downloaded_videos, calls, counted, requested, prior_files, posted,
                   failures>>

\* ------------------------------------------- download_and_post_media

\* A task that has not returned, raised or been cancelled.
Pending(call) ==
    \E i \in DOMAIN call.tasks : call.tasks[i].st \in {"wait", "dl", "post"}

\* The frames that are still referenced: the one harvest_and_post_media
\* awaits and those whose tasks are still running.
Live(frames) == SelectSeq(frames, LAMBDA f : f.awaited \/ Pending(f))

\* Mutant of PhotoQuotaLeft: the comparison admits equality.
PhotoQuotaLeft_Inclusive(call) == call.downloaded_photos <= call.download_photos

\* `downloaded_photos < download_photos`
PhotoQuotaLeft(call) == call.downloaded_photos < call.download_photos

\* `downloaded_videos < download_videos`
VideoQuotaLeft(call) == call.downloaded_videos < call.download_videos

\* Mutant of TooLong: a duration equal to the threshold is refused too.
TooLong_AtThreshold(message) ==
    \E k \in DOMAIN message.attributes :
        /\ message.attributes[k].has_duration
        /\ message.attributes[k].duration >= max_video_duration

\* The loop over message.media.document.attributes returns at the first
\* attribute that has a duration above max_video_duration.
TooLong(message) ==
    \E k \in DOMAIN message.attributes :
        /\ message.attributes[k].has_duration
        /\ message.attributes[k].duration > max_video_duration

\* The branch of download_and_post that reaches `await message.download_media`.
TakesPhotoBranch(message, call) ==
    message.media # "None" /\ IsPhoto(message) /\ PhotoQuotaLeft(call)

TakesVideoBranch(message, call) ==
    /\ message.media # "None"
    /\ ~TakesPhotoBranch(message, call)
    /\ IsVideo(message)
    /\ VideoQuotaLeft(call)

StartsDownload(message, call) ==
    \/ TakesPhotoBranch(message, call)
    \/ TakesVideoBranch(message, call) /\ ~TooLong(message)

\* Tasks of a call enter `async with semaphore` in the order gather created
\* them, and waiters are woken first come first served.
MayAcquire(call, i) ==
    /\ call.tasks[i].st = "wait"
    /\ call.semaphore > 0
    /\ \A j \in 1..(i - 1) : call.tasks[j].st # "wait"

\* Mutant of Returned: a video that is passed over or discarded takes a unit
\* of the video quota.
Returned_ConsumesVideoQuota(call, i) ==
    IF IsVideo(call.messages[i])
    THEN [call EXCEPT !.tasks[i].st = "done", !.downloaded_videos = @ + 1]
    ELSE [call EXCEPT !.tasks[i].st = "done"]

\* The frame after task i has run through download_and_post without a
\* download: no branch was taken, or the loop over the attributes hit
\* `return` at a duration above max_video_duration.
Returned(call, i) == [call EXCEPT !.tasks[i].st = "done"]

\* A task takes a slot of the semaphore and runs to its first await: either
\* it starts the download, or it leaves the `async with` block at once.
TaskStart(c, i) ==
    /\ pc # "closed"
    /\ c \in DOMAIN calls
    /\ i \in DOMAIN calls[c].tasks
    /\ MayAcquire(calls[c], i)
    /\ calls' =
         IF StartsDownload(calls[c].messages[i], calls[c])
         THEN [calls EXCEPT ![c].semaphore = @ - 1,
                            ![c].tasks[i].st = "dl",
                            ![c].tasks[i].started = TRUE]
         ELSE Live([calls EXCEPT ![c] = Returned(calls[c], i)])
    /\ UNCHANGED <<history, limit, files, group, pc, offset_id, photo_count,
                   video_count, download_photos, download_videos, downloaded_photos,
                   downloaded_videos, messages, outcome, counted, requested, prior_files,
                   posted, failures>>

\* The call's frame after a task counted a new file of its message's kind.
Counted(call, message) ==
    IF IsPhoto(message)
    THEN [call EXCEPT !.downloaded_photos = @ + 1]
    ELSE [call EXCEPT !.downloaded_videos = @ + 1]

\* What `await message.download_media(file=group_dir)` can do: return the
\* name of the file it wrote, return None, or raise.
DownloadResults ==
    {"file"} \cup (IF failures < MaxFailures THEN {"none", "raise"} ELSE {})

\* Mutant of Leave: the slot is not given back.
Leave_KeepsSlot(call, i, state, name) ==
    [call EXCEPT !.tasks[i].st = state,
                 !.tasks[i].file_name = name]

\* Task i leaves the `async with semaphore` block after an await, by
\* reaching its end or by an exception: the slot is released.
Leave(call, i, state, name) ==
    [call EXCEPT !.semaphore = @ + 1,
                 !.tasks[i].st = state,
                 !.tasks[i].file_name = name]

\* A task resumes from its await. From download_media: the call raised, or
\* returned None, or wrote the file and returned its name; a name that passes
\* the `not os.path.exists` test is counted and handed to
\* post_media_to_group. From post_media_to_group (which logs a failed
\* send_file and returns): the task leaves the `async with` block.
TaskResume(c, i) ==
    /\ pc # "closed"
    /\ c \in DOMAIN calls
    /\ i \in DOMAIN calls[c].tasks
    /\ calls[c].tasks[i].st \in {"dl", "post"}
    /\ LET call == calls[c]
           message == call.messages[i]
       IN  IF call.tasks[i].st = "post"
           THEN /\ calls' = Live([calls EXCEPT ![c] = Leave(call, i, "done", call.tasks[i].file_name)])
                /\ UNCHANGED <<files, posted, failures>>
           ELSE \E result \in DownloadResults :
                  CASE result = "raise" ->
                         /\ calls' = Live([calls EXCEPT ![c] = Leave(call, i, "failed", NoFile)])
                         /\ failures' = failures + 1
                         /\ UNCHANGED <<files, posted>>
                    [] result = "none" ->
                         /\ calls' = Live([calls EXCEPT ![c] = Leave(call, i, "done", NoFile)])
                         /\ failures' = failures + 1
                         /\ UNCHANGED <<files, posted>>
                    [] result = "file" ->
                         LET file_name == ProperFilename(files, call.group, message.id)
                             disk == Written(files, file_name)
                         IN  /\ files' = disk
                             /\ UNCHANGED failures
                             /\ IF IsNewFile(disk, file_name)
                                THEN /\ calls' = [calls EXCEPT ![c] =
                                            [Counted(call, message) EXCEPT
                                                !.tasks[i].st = "post",
                                                !.tasks[i].file_name = file_name]]
                                     /\ posted' = posted \cup {file_name}
                                ELSE /\ calls' = Live([calls EXCEPT ![c] = Leave(call, i, "done", file_name)])
                                     /\ UNCHANGED posted
    /\ UNCHANGED <<history, limit, group, pc, offset_id, photo_count, video_count,
                   download_photos, download_videos, downloaded_photos,
                   downloaded_videos, messages, outcome, counted, requested,
                   prior_files>>

\* Mutant of GatherReturn: the call returns without joining its tasks, which
\* run on while the loop requests the next page.
GatherReturn_NoBarrier ==
    /\ pc = "gather"
    /\ calls' = Live([calls EXCEPT ![Len(calls)].awaited = FALSE])
    /\ offset_id' = FetchOffset(messages)
    /\ pc' = "fetch"
    /\ UNCHANGED <<history, limit, files, group, photo_count, video_count,
                   download_photos, download_videos, downloaded_photos,
                   downloaded_videos, messages, outcome, counted, requested,
                   prior_files, posted, failures>>

\* asyncio.gather returns once every task of the page has returned; the loop
\* moves offset_id and requests the next page.
GatherReturn ==
    /\ pc = "gather"
    /\ \A i \in DOMAIN calls[Len(calls)].tasks : calls[Len(calls)].tasks[i].st = "done"
    /\ calls' = SubSeq(calls, 1, Len(calls) - 1)
    /\ offset_id' = FetchOffset(messages)
    /\ pc' = "fetch"
    /\ UNCHANGED <<history, limit, files, group, photo_count, video_count,
                   download_photos, download_videos, downloaded_photos,
                   downloaded_videos, messages, outcome, counted, requested,
                   prior_files, posted, failures>>

\* asyncio.gather (return_exceptions=False) re-raises the first exception of a
\* task into download_and_post_media; the other tasks are not cancelled. The
\* exception leaves the `while` loop and reaches the group's handler.
GatherRaise ==
    /\ pc = "gather"
    /\ \E i \in DOMAIN calls[Len(calls)].tasks : calls[Len(calls)].tasks[i].st = "failed"
    /\ Except("download_error")
    /\ calls' = Live([calls EXCEPT ![Len(calls)].awaited = FALSE])
    /\ UNCHANGED <<history, limit, files, offset_id, photo_count, video_count,
                   download_photos, download_videos, downloaded_photos,
                   downloaded_videos, messages, counted, requested, prior_files,
                   posted, failures>>

\* asyncio.run(main()) ends: it cancels the tasks that are still pending
\* and closes the loop.
Shutdown ==
    /\ pc = "done"
    /\ pc' = "closed"
    /\ calls' = <<>>
    /\ UNCHANGED <<history, limit, files, group, offset_id, photo_count, video_count,
                   download_photos, download_videos, downloaded_photos,
                   downloaded_videos, messages, outcome, counted, requested,
                   prior_files, posted, failures>>

\* The calls and tasks a run can have.
CallIds == 1..(NumGroups * 4)
TaskIds == 1..(SemaphoreValue + 1)

Next ==
    \/ MakeDirs
    \/ CountPage
    \/ CountDone
    \/ ScanError
    \/ FetchPage
    \/ FetchDone
    \/ GatherReturn
    \/ GatherRaise
    \/ Shutdown
    \/ \E c \in CallIds, i \in TaskIds : TaskStart(c, i)
    \/ \E c \in CallIds, i \in TaskIds : TaskResume(c, i)

Spec == Init /\ [][Next]_vars

SpecWide == InitWide /\ [][Next]_vars

\* A step of some task of some call.
TaskStep == \E c \in CallIds, i \in TaskIds : TaskStart(c, i) \/ TaskResume(c, i)

\* The event loop of asyncio.run runs every coroutine that is ready: a task
\* that can enter the semaphore or whose awaited call has returned is
\* resumed, and so is download_and_post_media once gather has its result.
Fairness ==
    /\ WF_vars(TaskStep)
    /\ WF_vars(GatherReturn)
    /\ WF_vars(GatherRaise)

\* A page that fills the semaphore: as many photos as it has slots, then a
\* video above max_video_duration.
FullPage ==
    [k \in 1..(SemaphoreValue + 1) |->
        IF k <= SemaphoreValue THEN PhotoMsg(SemaphoreValue + 2 - k)
        ELSE VideoMsg(1, <<DurationAttr(max_video_duration + 100)>>)]

\* Runs in which the first group's history is one such page and the other
\* groups are empty, on an empty disk.
InitFair ==
    /\ InitWith(SemaphoreValue + 1,
                {[g \in Groups |-> IF g = 1 THEN FullPage ELSE <<>>]})
    /\ files = EmptyDisk

SpecFair == InitFair /\ [][Next]_vars /\ Fairness

\* ------------------------------------------------------------ properties

\* The downloads of message i of group g that this run completed: the files
\* of the message that were not on disk when the run began.
Downloads(g, i) ==
    Cardinality({p \in DOMAIN files \ prior_files : p[1] = g /\ p[2] = i})

\* The messages of group g, picked by their index in its history, whose media
\* this run downloaded.
DownloadedOf(g, indices) ==
    Cardinality({k \in indices : Downloads(g, history[g][k].id) >= 1})

PhotosOf(g) == {k \in DOMAIN history[g] : IsPhoto(history[g][k])}
VideosOf(g) == {k \in DOMAIN history[g] : IsVideo(history[g][k])}

\* The tasks of a frame that are inside the download of a message that
\* satisfies a test, given as the set of their indices.
Downloading(call, indices) ==
    Cardinality({i \in indices : call.tasks[i].st = "dl"})

PhotoTasks(call) == {i \in DOMAIN call.messages : IsPhoto(call.messages[i])}
VideoTasks(call) == {i \in DOMAIN call.messages : IsVideo(call.messages[i])}

\* C1: for every group, the number of photo (video) messages whose media was
\* downloaded never exceeds min(requested, counted by the first pass).
C1_DownloadedWithinQuota ==
    \A g \in Groups :
        /\ DownloadedOf(g, PhotosOf(g)) <= Min(requested[g][1], counted[g][1])
        /\ DownloadedOf(g, VideosOf(g)) <= Min(requested[g][2], counted[g][2])

\* C2: when one unit of a kind's quota remains in a call, at most one task of
\* the call is downloading a message of that kind: the tasks never both pass
\* the check for the last unit.
C2_LastUnitTakenOnce ==
    \A c \in DOMAIN calls :
        /\ calls[c].download_photos - calls[c].downloaded_photos = 1
              => Downloading(calls[c], PhotoTasks(calls[c])) <= 1
        /\ calls[c].download_videos - calls[c].downloaded_videos = 1
              => Downloading(calls[c], VideoTasks(calls[c])) <= 1

\* The messages of a frame's group that earlier pages of the pass held (the
\* pass walks the ids downwards), by index in the history.
EarlierPages(call, indices) ==
    {k \in indices : history[call.group][k].id > call.messages[1].id}

\* C3: the quota holds for the whole pass: a task downloads a photo (video)
\* only if the earlier pages of the same group downloaded fewer photos
\* (videos) than the quota.
C3_QuotaCarriesOver ==
    \A c \in DOMAIN calls :
        LET call == calls[c]
            g == call.group
        IN  /\ Downloading(call, PhotoTasks(call)) > 0
                 => DownloadedOf(g, EarlierPages(call, PhotosOf(g))) < call.download_photos
            /\ Downloading(call, VideoTasks(call)) > 0
                 => DownloadedOf(g, EarlierPages(call, VideosOf(g))) < call.download_videos

\* C4: in every state, what the tasks of a call see as the remaining quota,
\* download_photos - downloaded_photos and download_videos -
\* downloaded_videos, is not negative.
C4_RemainingNonNegative ==
    \A c \in DOMAIN calls :
        /\ calls[c].download_photos - calls[c].downloaded_photos >= 0
        /\ calls[c].download_videos - calls[c].downloaded_videos >= 0

\* C4 witness: two tasks of one call downloaded photos concurrently under a
\* quota of one, and both have returned.
C4_Witness ==
    \E c \in DOMAIN calls :
        /\ calls[c].download_photos = 1
        /\ \E i, j \in PhotoTasks(calls[c]) :
              /\ i # j
              /\ calls[c].tasks[i].st = "done" /\ calls[c].tasks[i].file_name # NoFile
              /\ calls[c].tasks[j].st = "done" /\ calls[c].tasks[j].file_name # NoFile

\* The durations a message's document attributes declare.
KnownDurations(message) ==
    {message.attributes[k].duration :
        k \in {j \in DOMAIN message.attributes : message.attributes[j].has_duration}}

OverTenMinutes(message) == \E d \in KnownDurations(message) : d > 600

\* C5: a task downloads a video only if none of its attributes declares a
\* duration above 600 seconds, and a video whose durations are all at most
\* 600, or that declares none, is downloaded by its task when the call has
\* video quota left.
C5_DurationFilter ==
    \A c \in DOMAIN calls :
        \A i \in VideoTasks(calls[c]) :
            LET task == calls[c].tasks[i]
                message == calls[c].messages[i]
            IN  /\ task.started => ~OverTenMinutes(message)
                /\ ( /\ task.st # "wait"
                     /\ calls[c].downloaded_videos < calls[c].download_videos
                     /\ ~OverTenMinutes(message) ) => task.started

\* C5 witness: a completed pass with video quota over a group that has a
\* video of 601 seconds, one of exactly 600 seconds and one that declares no
\* duration: the first was not downloaded, the other two were.
C5_Witness ==
    \E g \in Groups :
        /\ outcome[g] = "completed"
        /\ Min(requested[g][2], counted[g][2]) >= 1
        /\ \E i, j, k \in VideosOf(g) :
              /\ 601 \in KnownDurations(history[g][i])
              /\ Downloads(g, history[g][i].id) = 0
              /\ KnownDurations(history[g][j]) = {600}
              /\ Downloads(g, history[g][j].id) = 1
              /\ KnownDurations(history[g][k]) = {}
              /\ Downloads(g, history[g][k].id) = 1

\* The downloads of message i of group g that are under way.
InProgress(g, i) ==
    Cardinality({<<c, k>> \in (DOMAIN calls) \X TaskIds :
        /\ k \in DOMAIN calls[c].tasks
        /\ calls[c].group = g
        /\ calls[c].messages[k].id = i
        /\ calls[c].tasks[k].st = "dl"})

\* C6: within a group's run, the media of a message id is downloaded at most
\* once, the downloads under way included.
C6_DownloadedAtMostOnce ==
    \A g \in Groups :
        \A i \in IdsOf(history[g]) : Downloads(g, i) + InProgress(g, i) <= 1

\* C6 witness: a pass of two pages downloaded three messages of a group, one
\* download each.
C6_Witness ==
    \E g \in Groups :
        /\ outcome[g] = "completed"
        /\ Cardinality({i \in IdsOf(history[g]) : Downloads(g, i) = 1}) = 3

\* The tasks of all calls that are inside the semaphore-guarded section,
\* suspended in a download or in a send.
InFlight ==
    Cardinality({<<c, k>> \in (DOMAIN calls) \X TaskIds :
        /\ k \in DOMAIN calls[c].tasks
        /\ calls[c].tasks[k].st \in {"dl", "post"}})

\* C7: at every moment at most 5 tasks are in flight, over all calls of
\* download_and_post_media.
C7_AtMostFiveInFlight == InFlight <= SemaphoreValue

\* C8: a download error raised in a task is contained in the task: it never
\* reaches the group's handler, which would end the group's fetch pass with
\* the pages that remain unprocessed.
C8_DownloadErrorContained ==
    \A g \in Groups : outcome[g] # "download_error"

Errors == {"makedirs_error", "scan_error", "download_error"}

\* The smallest id of a history: where offset_id stands when a pass over it
\* has returned its empty page (0 for an empty history).
LastOffset(hist) == IF hist = <<>> THEN 0 ELSE hist[Len(hist)].id

\* C9: an error of a group is caught by the group's handler and the groups
\* after it are processed: the run ends only after every group was handled,
\* and a group whose own processing raised nothing completes both passes,
\* with the counts of its own history, whatever happened to the groups
\* before it.
C9_LaterGroupsProcessed ==
    /\ pc \in {"done", "closed"} => \A g \in Groups : outcome[g] # "pending"
    /\ \A g \in Groups :
          /\ group > g => outcome[g] \in Errors \cup {"completed"}
          /\ outcome[g] = "completed" =>
                counted[g] = <<Cardinality(PhotosOf(g)), Cardinality(VideosOf(g))>>
          /\ (outcome[g] = "completed" /\ group = g + 1 /\ pc \in {"start", "done"})
                => offset_id = LastOffset(history[g])

\* C9 witness: the first group failed, the second completed its counting and
\* fetch passes and downloaded media.
C9_Witness ==
    /\ pc = "done"
    /\ outcome[1] \in Errors
    /\ outcome[NumGroups] = "completed"
    /\ counted[NumGroups] # <<0, 0>>
    /\ \E i \in IdsOf(history[NumGroups]) : Downloads(NumGroups, i) = 1

\* The messages of a call whose file was on disk when the run began.
HadFile(call, indices) ==
    {i \in indices : Path(call.group, call.messages[i].id, 0) \in prior_files}

\* C10: a message whose file exists before its task downloads it is not
\* counted as a success, is not handed to post_media_to_group, leaves the
\* call's quotas as computed, and the existing file is not written again; so
\* the counters of a call whose messages all had their file stay at 0.
C10_ExistingFilesNotCounted ==
    /\ \A p \in prior_files : files[p] = 1
    /\ \A p \in posted : Path(p[1], p[2], 0) \notin prior_files
    /\ \A c \in DOMAIN calls :
          LET call == calls[c]
              g == call.group
          IN  /\ call.downloaded_photos
                   <= Cardinality(PhotoTasks(call) \ HadFile(call, PhotoTasks(call)))
              /\ call.downloaded_videos
                   <= Cardinality(VideoTasks(call) \ HadFile(call, VideoTasks(call)))
              /\ call.download_photos = Min(requested[g][1], counted[g][1])
              /\ call.download_videos = Min(requested[g][2], counted[g][2])

\* C10 witness: the files of a prior run were on disk, the tasks of a call
\* downloaded two of its messages again, next to the existing files, and
\* returned.
C10_Witness ==
    \E c \in DOMAIN calls :
        /\ \A i \in DOMAIN calls[c].tasks : calls[c].tasks[i].st = "done"
        /\ Cardinality({i \in HadFile(calls[c], DOMAIN calls[c].tasks) :
              /\ calls[c].tasks[i].file_name
                    = Path(calls[c].group, calls[c].messages[i].id, 1)
              /\ PathExists(files, calls[c].tasks[i].file_name)}) = 2
        /\ calls[c].downloaded_photos = 0
        /\ calls[c].downloaded_videos = 0

\* The tasks of a frame, among those given by index, that have returned
\* after download_media wrote a file for their message.
Wrote(call, indices) ==
    {i \in indices : call.tasks[i].st = "done" /\ call.tasks[i].file_name # NoFile}

\* C11: a message whose media was downloaded to a path that did not exist
\* before the download is counted as a success of its kind and its file is
\* handed to post_media_to_group: every task that returned after writing a
\* file has advanced its call's counter and passed the path on, and when a
\* group's pass has completed every file it wrote was passed on.
C11_NewFilesPublished ==
    /\ \A c \in DOMAIN calls :
          /\ \A i \in Wrote(calls[c], DOMAIN calls[c].tasks) :
                calls[c].tasks[i].file_name \in posted
          /\ calls[c].downloaded_photos
                >= Cardinality(Wrote(calls[c], PhotoTasks(calls[c])))
          /\ calls[c].downloaded_videos
                >= Cardinality(Wrote(calls[c], VideoTasks(calls[c])))
    /\ \A g \in Groups :
          outcome[g] = "completed" =>
              \A p \in DOMAIN files \ prior_files : p[1] = g => p \in posted

\* The messages of group g, by index, that the fetch pass may download: the
\* photos, and the videos that declare no duration above 600 seconds.
EligiblePhotos(g) == PhotosOf(g)
EligibleVideos(g) == {k \in VideosOf(g) : ~OverTenMinutes(history[g][k])}

\* C12: when a group's fetch pass has completed in a run without failures
\* that began with an empty media directory, the pass's success counters are
\* min(min(requested, counted), eligible messages) for photos and for videos,
\* and that many messages of each kind were downloaded.
C12_CountersAtEndOfPass ==
    \A g \in Groups :
        ( /\ outcome[g] = "completed"
          /\ group = g + 1
          /\ pc \in {"start", "done"}
          /\ failures = 0
          /\ prior_files = {} )
        => LET photos == Min(Min(requested[g][1], counted[g][1]),
                             Cardinality(EligiblePhotos(g)))
               videos == Min(Min(requested[g][2], counted[g][2]),
                             Cardinality(EligibleVideos(g)))
           IN  /\ downloaded_photos = photos
               /\ downloaded_videos = videos
               /\ DownloadedOf(g, PhotosOf(g)) = photos
               /\ DownloadedOf(g, VideosOf(g)) = videos

\* C14: the groups are processed strictly one at a time: while a group is
\* being counted or fetched, no task created for an earlier group is waiting
\* for the semaphore, downloading or sending, a failure of a task of the
\* earlier group included.
C14_OneGroupAtATime ==
    (group \in Groups /\ pc \in {"count", "fetch", "gather"}) =>
        \A c \in DOMAIN calls : calls[c].group < group => ~Pending(calls[c])

\* The messages of the current group that the pass under way has visited, by
\* index in the history: those from the newest down to offset_id.
Visited ==
    {k \in DOMAIN history[group] :
        offset_id # 0 /\ history[group][k].id >= offset_id}

\* A group whose counting pass has returned its empty page.
CountingEnded(g) ==
    \/ g = group /\ pc \in {"fetch", "gather"}
    \/ outcome[g] \in {"completed", "download_error"}

\* C15: the counting pass tallies every message it has visited so far, and
\* when it has drained the history to the empty page it has counted every
\* message that carries a photo and every message whose document is a video,
\* the videos above the duration threshold included.
C15_CountingPass ==
    /\ (group \in Groups /\ pc = "count") =>
          /\ photo_count = Cardinality(PhotosOf(group) \cap Visited)
          /\ video_count = Cardinality(VideosOf(group) \cap Visited)
    /\ \A g \in Groups :
          CountingEnded(g) =>
              counted[g] = <<Cardinality(PhotosOf(g)), Cardinality(VideosOf(g))>>

\* C15 witness: a counting pass of more than one page has ended over a
\* group with a video above the threshold, and that video was counted.
C15_Witness ==
    \E g \in Groups :
        /\ CountingEnded(g)
        /\ Len(history[g]) > limit
        /\ \E k \in VideosOf(g) : OverTenMinutes(history[g][k])
        /\ counted[g][2] = Cardinality(VideosOf(g))
        /\ counted[g][2] >= 3

\* C16: the duration filter comes before any quota is consumed: the step in
\* which a task discards a video with a known duration above 600 seconds
\* leaves the call's two success counters and two quotas, the caller's, the
\* disk and the published paths as they were, and starts no download.
C16_DiscardLeavesQuota ==
    [][\A c \in DOMAIN calls : \A i \in VideoTasks(calls[c]) :
          ( /\ OverTenMinutes(calls[c].messages[i])
            /\ calls[c].tasks[i].st = "wait"
            /\ Len(calls') = Len(calls)
            /\ calls'[c].tasks[i].st # "wait" )
          => /\ calls'[c].tasks[i].st = "done"
             /\ ~calls'[c].tasks[i].started
             /\ calls'[c].downloaded_photos = calls[c].downloaded_photos
             /\ calls'[c].downloaded_videos = calls[c].downloaded_videos
             /\ calls'[c].download_photos = calls[c].download_photos
             /\ calls'[c].download_videos = calls[c].download_videos
             /\ calls'[c].semaphore = calls[c].semaphore
             /\ UNCHANGED <<download_photos, download_videos, downloaded_photos,
                            downloaded_videos, files, posted>>]_vars

\* C16 witness: in a call with a video quota of one, a task discarded a
\* video above the threshold and a later task of the same call downloaded an
\* eligible video.
C16_Witness ==
    \E c \in DOMAIN calls :
        /\ calls[c].download_videos = 1
        /\ calls[c].downloaded_videos = 0
        /\ \E i, j \in VideoTasks(calls[c]) :
              /\ i < j
              /\ OverTenMinutes(calls[c].messages[i])
              /\ calls[c].tasks[i].st = "done"
              /\ ~calls[c].tasks[i].started
              /\ ~OverTenMinutes(calls[c].messages[j])
              /\ calls[c].tasks[j].st = "done"
              /\ calls[c].tasks[j].file_name # NoFile

\* Page n of a history under the page size: the messages a pass receives
\* with its n-th request.
PageOf(hist, n) ==
    SubSeq(hist, (n - 1) * limit + 1, Min(n * limit, Len(hist)))

\* The number of non-empty pages of a history.
NumPages(hist) == (Len(hist) + limit - 1) \div limit

\* The id a pass holds in offset_id when it requests page n.
OffsetBefore(hist, n) ==
    IF n = 1 THEN 0 ELSE hist[(n - 1) * limit].id

\* In every state of a pass: offset_id is 0 or the id of the last message of
\* the page just handled, the second pass holds page n when offset_id is
\* where page n - 1 ended (0 for the first page), the ids of a page are
\* strictly decreasing, and the second pass has ended only with offset_id at
\* the oldest message.
PassPosition ==
    /\ (group \in Groups /\ pc \in {"count", "fetch"} /\ offset_id # 0) =>
          \E n \in 1..NumPages(history[group]) :
              /\ messages = PageOf(history[group], n)
              /\ offset_id = messages[Len(messages)].id
    /\ (group \in Groups /\ pc = "gather") =>
          \E n \in 1..NumPages(history[group]) :
              /\ messages = PageOf(history[group], n)
              /\ offset_id = OffsetBefore(history[group], n)
    /\ (group \in Groups /\ pc \in {"count", "fetch", "gather"}) =>
          \A j, k \in DOMAIN messages : j < k => messages[j].id > messages[k].id
    /\ \A g \in Groups :
          (outcome[g] = "completed" /\ group = g + 1 /\ pc \in {"start", "done"})
              => offset_id = LastOffset(history[g])

\* In every step of a pass: a page that arrives in the first pass is the
\* page after the one offset_id stood at, the first pass ends only with
\* offset_id at the oldest message, and the second pass begins at offset 0.
PassStep ==
    /\ (pc = "count" /\ pc' = "count" /\ offset_id' # offset_id) =>
          \E n \in 1..NumPages(history[group]) :
              /\ messages' = PageOf(history[group], n)
              /\ offset_id = OffsetBefore(history[group], n)
    /\ (pc = "count" /\ pc' = "fetch") =>
          /\ offset_id = LastOffset(history[group])
          /\ offset_id' = 0

\* C17: each pass over a group's unchanging history starts at offset 0,
\* requests each next page below the last id of the page before it, walks
\* the history page by page in strictly decreasing id order without a gap or
\* a repeat, and ends at the empty page after the oldest message; the second
\* pass starts again from offset 0.
C17_PagesWalkTheHistory == []PassPosition /\ [][PassStep]_vars

\* C17 witness: the second pass over a history of more than one page has
\* handled its last page, after the first pass walked the same pages.
C17_Witness ==
    /\ group \in Groups
    /\ pc = "fetch"
    /\ NumPages(history[group]) >= 2
    /\ messages = PageOf(history[group], NumPages(history[group]))
    /\ offset_id = LastOffset(history[group])
    /\ counted[group] # <<0, 0>>

\* The tasks of a call, among those given by index, that have begun a
\* download.
StartedTasks(call, indices) ==
    {i \in indices :
        call.tasks[i].started \/ call.tasks[i].st \in {"dl", "post"}}

\* The ids of the messages of group g picked by index.
IdsAt(g, indices) == {history[g][k].id : k \in indices}

\* C18: when the quota of a kind is 0 for a group, because the operator
\* asked for 0 or the counting pass found none, no task of the group's fetch
\* pass begins a download of a message of that kind, no file of such a
\* message is written and no path of such a message is handed to
\* post_media_to_group, in any interleaving and on any page.
C18_ZeroQuotaDownloadsNothing ==
    \A g \in Groups :
        /\ Min(requested[g][1], counted[g][1]) = 0 =>
              /\ \A c \in DOMAIN calls :
                    calls[c].group = g =>
                        StartedTasks(calls[c], PhotoTasks(calls[c])) = {}
              /\ DownloadedOf(g, PhotosOf(g)) = 0
              /\ \A p \in posted : p[1] = g => p[2] \notin IdsAt(g, PhotosOf(g))
        /\ Min(requested[g][2], counted[g][2]) = 0 =>
              /\ \A c \in DOMAIN calls :
                    calls[c].group = g =>
                        StartedTasks(calls[c], VideoTasks(calls[c])) = {}
              /\ DownloadedOf(g, VideosOf(g)) = 0
              /\ \A p \in posted : p[1] = g => p[2] \notin IdsAt(g, VideosOf(g))

\* C18 witness: a completed pass of more than one page over a group that has
\* photos and videos, with 0 photos requested and a video requested: videos
\* were downloaded, no photo was.
C18_Witness ==
    \E g \in Groups :
        /\ outcome[g] = "completed"
        /\ requested[g] = <<0, MaxRequest>>
        /\ counted[g][1] >= 1
        /\ Len(history[g]) > limit
        /\ DownloadedOf(g, VideosOf(g)) >= 1
        /\ DownloadedOf(g, PhotosOf(g)) = 0

\* C19: the fetch pass requests the next page of a group only after every
\* task created for the page before it has finished: while the pass is at a
\* request no call made for the group has a task left, while it awaits a
\* call that call is the only one of the group and holds the page in hand,
\* and no two calls with unfinished tasks belong to the same group.
C19_PageBarrier ==
    /\ (group \in Groups /\ pc = "fetch") =>
          \A c \in DOMAIN calls : calls[c].group # group
    /\ (group \in Groups /\ pc = "gather") =>
          /\ calls # <<>>
          /\ calls[Len(calls)].group = group
          /\ calls[Len(calls)].messages = messages
          /\ calls[Len(calls)].awaited
    /\ \A c, d \in DOMAIN calls : c # d => calls[c].group # calls[d].group

\* C19 witness: in a run without failures the fetch pass is about to request
\* the second page of a group; the tasks of the first page downloaded both
\* of its messages and no call is left.
C19_Witness ==
    /\ group \in Groups
    /\ pc = "fetch"
    /\ failures = 0
    /\ offset_id # 0
    /\ GetMessages(history[group], offset_id, limit) # <<>>
    /\ calls = <<>>
    /\ \A k \in DOMAIN messages : Downloads(group, messages[k].id) = 1

\* The tasks of a call that hold a slot of its semaphore.
Holding(call) ==
    {i \in DOMAIN call.tasks : call.tasks[i].st \in {"dl", "post"}}

\* Every slot of a call's semaphore is free or held by a task that is inside
\* the guarded section.
SlotsBalanced ==
    \A c \in DOMAIN calls :
        /\ calls[c].semaphore >= 0
        /\ calls[c].semaphore + Cardinality(Holding(calls[c])) = SemaphoreValue

\* C20: a task gives its slot back on every way out of the guarded section
\* (the end of the block, the return at a long video, a message it passes
\* over, an exception of download_media), so the slots of a call are always
\* either free or held by a task inside the section, and under fair
\* scheduling a call of download_and_post_media that harvest_and_post_media
\* awaits always comes back, for a page with more messages than slots too.
C20_SlotsReleased ==
    /\ []SlotsBalanced
    /\ (pc = "gather") ~> (pc # "gather")

\* C20 witness: on a page of five photos and a video above the threshold,
\* with a video requested, the five downloads have written their files, the
\* sixth task has passed the semaphore and returned at the duration test,
\* and every slot is free again.
C20_Witness ==
    \E c \in DOMAIN calls :
        /\ calls[c].messages = FullPage
        /\ calls[c].download_videos = 1
        /\ calls[c].semaphore = SemaphoreValue
        /\ \A i \in 1..SemaphoreValue :
              /\ calls[c].tasks[i].st = "done"
              /\ calls[c].tasks[i].file_name # NoFile
        /\ calls[c].tasks[SemaphoreValue + 1].st = "done"
        /\ ~calls[c].tasks[SemaphoreValue + 1].started

\* A state of the same runs in which every slot is held and the sixth task
\* waits for one.
SixthTaskWaits ==
    \E c \in DOMAIN calls :
        /\ calls[c].semaphore = 0
        /\ calls[c].tasks[SemaphoreValue + 1].st = "wait"

====
